---- MODULE Spec2Model ----
(***************************************************************************)
(* Command-reference content of the NUTS website and documentation.        *)
(*                                                                         *)
(* The repository holds no catalog module: the command tables are written  *)
(* inline in the project documentation (src/unnamed/part_002), the website *)
(* README (src/unnamed/part_000) and the ReadmePage component              *)
(* (src/website/src/app/readme/page.tsx).  The tables below transcribe     *)
(* that content row by row.  The catalog is the "Complete Command          *)
(* Reference" of the project documentation (the only place that gives      *)
(* name, syntax, description and example for every command) together with *)
(* its "Command Aliases" list.  The three catalog operations listCommands, *)
(* resolveAlias and describeMonitoring exist only in the specification     *)
(* and are modelled from it.                                               *)
(***************************************************************************)
EXTENDS Integers, Sequences, FiniteSets, TLC

VARIABLES catalog, log, rendered, requests, monitor, release, nav

vars == <<catalog, log, rendered, requests, monitor, release, nav>>

\* Number of catalog operations recorded in one run.
MaxCalls == 2

\* Number of page requests served in one run.
MaxRequests == 3

\* Number of health checks of one monitor run.
MaxChecks == 6

\* Number of navigations in the documentation template.
MaxHistory == 3

-----------------------------------------------------------------------------
(* Authored content: project documentation                                 *)

\* A table row `name syntax` | description | `name args`.
Row(n, syn, desc, args) ==
    [name |-> n, syntax |-> syn, description |-> desc,
     example |-> [cmd |-> n, args |-> args]]

\* "### Core Commands" table.
CoreTable ==
    << Row("call", "[OPTIONS] [METHOD] URL [BODY]", "Advanced HTTP client",
           "GET https://api.example.com/users"),
       Row("ask", "\"description\"", "Natural language to API call",
           "\"Create a user with test data\""),
       Row("perf", "[METHOD] URL [OPTIONS]", "Performance testing",
           "GET https://api.example.com --users 50"),
       Row("security", "URL [OPTIONS]", "AI security scanning",
           "https://api.example.com --deep"),
       Row("monitor", "URL [--smart]", "Health monitoring",
           "https://api.example.com --smart"),
       Row("discover", "BASE_URL", "Auto-discover endpoints",
           "https://api.example.com"),
       Row("test", "\"description\"", "AI test generation",
           "\"Check user registration works\""),
       Row("generate", "TYPE [count]", "Generate test data", "users 10"),
       Row("predict", "BASE_URL", "AI health prediction",
           "https://api.example.com"),
       Row("explain", "", "Explain last response", ""),
       Row("fix", "URL", "Auto-fix API issues",
           "https://api.example.com/broken"),
       Row("config", "[api-key|show]", "Configuration", "api-key") >>

\* The same rows with the first two exchanged.
FlowTableReordered ==
    << Row("flow add", "NAME METHOD PATH", "Add endpoint", "myapi GET /users"),
       Row("flow new", "NAME", "Create new flow", "myapi"),
       Row("flow run", "NAME ENDPOINT", "Execute endpoint", "myapi /users"),
       Row("flow list", "", "List flows", ""),
       Row("flow docs", "NAME", "Generate docs", "myapi"),
       Row("flow mock", "NAME [PORT]", "Start mock server", "myapi 8080"),
       Row("flow story", "NAME", "AI-guided workflow", "myapi") >>

\* The table with the `flow new` row entered twice.
FlowTableDuplicateRow ==
    << Row("flow new", "NAME", "Create new flow", "myapi"),
       Row("flow new", "NAME", "Create new flow", "myapi"),
       Row("flow add", "NAME METHOD PATH", "Add endpoint", "myapi GET /users"),
       Row("flow run", "NAME ENDPOINT", "Execute endpoint", "myapi /users"),
       Row("flow list", "", "List flows", ""),
       Row("flow docs", "NAME", "Generate docs", "myapi"),
       Row("flow mock", "NAME [PORT]", "Start mock server", "myapi 8080"),
       Row("flow story", "NAME", "AI-guided workflow", "myapi") >>

\* "### Flow Management" table.
FlowTable ==
    << Row("flow new", "NAME", "Create new flow", "myapi"),
       Row("flow add", "NAME METHOD PATH", "Add endpoint", "myapi GET /users"),
       Row("flow run", "NAME ENDPOINT", "Execute endpoint", "myapi /users"),
       Row("flow list", "", "List flows", ""),
       Row("flow docs", "NAME", "Generate docs", "myapi"),
       Row("flow mock", "NAME [PORT]", "Start mock server", "myapi 8080"),
       Row("flow story", "NAME", "AI-guided workflow", "myapi") >>

\* The alias list with `c` bound to perf.
CommandAliasesCToPerf ==
    << [name |-> "c", aliasOf |-> "perf"],
       [name |-> "p", aliasOf |-> "perf"],
       [name |-> "s", aliasOf |-> "flow story"],
       [name |-> "h", aliasOf |-> "help"],
       [name |-> "q", aliasOf |-> "quit"] >>

\* "### Command Aliases" list: `alias` -> `target`.
CommandAliases ==
    << [name |-> "c", aliasOf |-> "call"],
       [name |-> "p", aliasOf |-> "perf"],
       [name |-> "s", aliasOf |-> "flow story"],
       [name |-> "h", aliasOf |-> "help"],
       [name |-> "q", aliasOf |-> "quit"] >>

\* Monitor details with AI analysis on every 4th check.
MonitorDetailsEvery4th ==
    [Basic |-> [checkEverySeconds |-> 30],
     Smart |-> [aiEveryNthCheck |-> 4, aiEverySeconds |-> 90]]

\* Monitor details with a health check every 60 seconds.
MonitorDetailsEvery60s ==
    [Basic |-> [checkEverySeconds |-> 60],
     Smart |-> [aiEveryNthCheck |-> 3, aiEverySeconds |-> 90]]

\* Monitor details with AI analysis on every 2nd check.
MonitorDetailsEvery2nd ==
    [Basic |-> [checkEverySeconds |-> 30],
     Smart |-> [aiEveryNthCheck |-> 2, aiEverySeconds |-> 90]]

\* "#### Monitor Command Details": the two documented monitoring modes.
\* Smart has "all basic monitoring features" plus the AI analysis.
MonitorDetails ==
    [Basic |-> [checkEverySeconds |-> 30],
     Smart |-> [aiEveryNthCheck |-> 3, aiEverySeconds |-> 90]]

\* The flags the project documentation uses: `flag` of a command, with the
\* comment line above its example as the effect.  (ReadmePage alone also
\* shows `security --auth`.)
Options ==
    << [flag |-> "-H", appliesTo |-> {"call"}, effect |-> "Headers"],
       [flag |-> "-u", appliesTo |-> {"call"}, effect |-> "Authentication"],
       [flag |-> "--bearer", appliesTo |-> {"call"}, effect |-> "Authentication"],
       [flag |-> "-v", appliesTo |-> {"call"}, effect |-> "Verbose output"],
       [flag |-> "-L", appliesTo |-> {"call"}, effect |-> "Follow redirects"],
       [flag |-> "--timeout", appliesTo |-> {"call"}, effect |-> "Timeout and retries"],
       [flag |-> "--retry", appliesTo |-> {"call"}, effect |-> "Timeout and retries"],
       [flag |-> "--users", appliesTo |-> {"perf"}, effect |-> "Advanced load test"],
       [flag |-> "--duration", appliesTo |-> {"perf"}, effect |-> "Advanced load test"],
       [flag |-> "--deep", appliesTo |-> {"security"}, effect |-> "Deep security analysis"],
       [flag |-> "--save", appliesTo |-> {"security"}, effect |-> "Deep security analysis"],
       [flag |-> "--smart", appliesTo |-> {"monitor"},
        effect |-> "Smart monitoring with AI insights"] >>

-----------------------------------------------------------------------------
(* Authored content: ReadmePage component                                  *)

\* `--auth` bound to a command that no table has.
PageOptionsAuthOnScan ==
    << [flag |-> "--auth", appliesTo |-> {"scan"}, effect |-> "Security Scanning"] >>

\* The flag only ReadmePage shows: `nuts security URL --auth "Bearer token"`
\* under "# Security Scanning".
PageOptions ==
    << [flag |-> "--auth", appliesTo |-> {"security"},
        effect |-> "Security Scanning"] >>

\* One command line of a code block, `nuts cmd args`.
Line(c, a) == [cmd |-> c, args |-> a]

\* Code block "Essential API Testing Commands".
PageCoreBlock ==
    << Line("call", "GET https://api.example.com/users"),
       Line("call", "POST https://api.example.com/users '{\"name\": \"John\"}'"),
       Line("call", "-H \"Authorization: Bearer token\" GET https://api.example.com/users"),
       Line("ask", "\"Create a user with realistic data\""),
       Line("ask", "\"Get all products from the API\""),
       Line("ask", "\"Delete user with ID 123\""),
       Line("perf", "GET https://api.example.com/users --users 100 --duration 30s"),
       Line("perf", "POST https://api.example.com/users --users 50 '{\"name\": \"Test\"}'"),
       Line("security", "https://api.example.com --deep"),
       Line("security", "https://api.example.com --auth \"Bearer token\" --save report.json"),
       Line("monitor", "https://api.example.com"),
       Line("monitor", "https://api.example.com --smart"),
       Line("discover", "https://api.example.com"),
       Line("test", "\"Check if user registration works\""),
       Line("generate", "users 10"),
       Line("predict", "https://api.example.com"),
       Line("explain", ""),
       Line("fix", "https://api.example.com/broken") >>

\* Code block "OpenAPI Collections & Workflows".
PageFlowBlock ==
    << Line("flow new", "myapi"),
       Line("flow add", "myapi GET /users"),
       Line("flow add", "myapi POST /users"),
       Line("flow run", "myapi /users"),
       Line("flow list", ""),
       Line("flow docs", "myapi"),
       Line("flow mock", "myapi"),
       Line("flow mock", "myapi 8080"),
       Line("flow configure_mock_data", "myapi /users"),
       Line("flow story", "myapi"),
       Line("flow s", "myapi") >>

\* Code block "Setup & Aliases", part "# Configuration".
PageConfigBlock ==
    << Line("config", "api-key"),
       Line("config", "show") >>

\* In the flow block: `nuts flow s myapi   # Shorthand for story mode`.
PageShorthands ==
    << [scope |-> "flow", name |-> "s", aliasOf |-> "flow story"] >>

\* The alias block with `s` bound to security.
PageAliasBlockSToSecurity ==
    << [cmd |-> "c", args |-> "GET https://api.example.com", aliasOf |-> "call"],
       [cmd |-> "p", args |-> "GET https://api.example.com --users 10", aliasOf |-> "perf"],
       [cmd |-> "s", args |-> "myapi", aliasOf |-> "security"],
       [cmd |-> "h", args |-> "", aliasOf |-> "help"],
       [cmd |-> "q", args |-> "", aliasOf |-> "quit"] >>

\* Code block "Setup & Aliases", part "# Command Aliases (shortcuts)":
\* `nuts alias args   # 'alias' = target`.
PageAliasBlock ==
    << [cmd |-> "c", args |-> "GET https://api.example.com", aliasOf |-> "call"],
       [cmd |-> "p", args |-> "GET https://api.example.com --users 10", aliasOf |-> "perf"],
       [cmd |-> "s", args |-> "myapi", aliasOf |-> "flow story"],
       [cmd |-> "h", args |-> "", aliasOf |-> "help"],
       [cmd |-> "q", args |-> "", aliasOf |-> "quit"] >>

-----------------------------------------------------------------------------
(* The catalog                                                             *)

Categories == {"Core", "Flow", "Config"}

\* listCommands() without a category.
NoCategory == "all"

\* Only the basic mode.
MonitoringModesBasicOnly == {"Basic"}

\* The documented modes: "Basic monitoring" and "Smart monitoring".
MonitoringModes == {"Basic", "Smart"}

HasAlias(e) == "aliasOf" \in DOMAIN e

\* The rows of a table as CommandEntry values of one category.
Tagged(table, cat) ==
    [i \in 1..Len(table) |->
        [name |-> table[i].name, syntax |-> table[i].syntax,
         description |-> table[i].description, example |-> table[i].example,
         category |-> cat]]

\* The alias list as CommandEntry values.  The pages list the aliases after
\* the command tables, ReadmePage in its "Configuration & Shortcuts" section.
AliasEntries(aliases) ==
    [i \in 1..Len(aliases) |->
        [name |-> aliases[i].name, category |-> "Config",
         aliasOf |-> aliases[i].aliasOf]]

\* The catalog as authored in the project documentation.
AuthoredCatalog ==
    Tagged(CoreTable, "Core") \o Tagged(FlowTable, "Flow")
        \o AliasEntries(CommandAliases)

Names(cat) == {cat[i].name : i \in 1..Len(cat)}

-----------------------------------------------------------------------------
(* Catalog operations                                                      *)

NotFound == [ok |-> FALSE, error |-> "NotFound"]

InvalidMode == [ok |-> FALSE, error |-> "InvalidMode"]

\* Linear lookup: index of the first entry called name, 0 when there is none.
RECURSIVE findFrom(_, _, _)
findFrom(cmds, name, i) ==
    IF i > Len(cmds) THEN 0
    ELSE IF cmds[i].name = name THEN i
    ELSE findFrom(cmds, name, i + 1)

find(cmds, name) == findFrom(cmds, name, 1)

OfCategory(cmds, cat) == SelectSeq(cmds, LAMBDA e : e.category = cat)

\* listCommands with the Config entries put first.
listCommandsConfigFirst(cmds, cat) ==
    IF cat = NoCategory
    THEN OfCategory(cmds, "Config") \o OfCategory(cmds, "Core")
             \o OfCategory(cmds, "Flow")
    ELSE OfCategory(cmds, cat)

\* listCommands(category?): all entries, Core before Flow before Config,
\* or the entries of one category, in authored order.
listCommands(cmds, cat) ==
    IF cat = NoCategory
    THEN OfCategory(cmds, "Core") \o OfCategory(cmds, "Flow")
             \o OfCategory(cmds, "Config")
    ELSE OfCategory(cmds, cat)

\* resolveAlias(name): NotFound when name is absent; an entry without aliasOf
\* is returned as it is; otherwise the aliasOf reference is followed once and
\* the entry found there is returned, whatever it is.  A reference to a name
\* that is not in the catalog cannot be followed: the lookup fails.
resolveAlias(cmds, name) ==
    LET i == find(cmds, name) IN
    IF i = 0 THEN NotFound
    ELSE IF ~HasAlias(cmds[i]) THEN [ok |-> TRUE, entry |-> cmds[i], hops |-> 0]
    ELSE LET j == find(cmds, cmds[i].aliasOf) IN
         IF j = 0 THEN NotFound
         ELSE [ok |-> TRUE, entry |-> cmds[j], hops |-> 1]

\* The MonitoringProfile of a documented mode.
Profile(details, mode) ==
    IF mode = "Basic"
    THEN [mode |-> "Basic",
          baseIntervalSeconds |-> details.Basic.checkEverySeconds]
    ELSE [mode |-> "Smart",
          baseIntervalSeconds |-> details.Basic.checkEverySeconds,
          aiAnalysisEveryNChecks |-> details.Smart.aiEveryNthCheck]

\* describeMonitoring(mode): the fixed profile of Basic or Smart.
describeMonitoring(details, mode) ==
    IF mode \in MonitoringModes
    THEN [ok |-> TRUE, profile |-> Profile(details, mode)]
    ELSE InvalidMode

-----------------------------------------------------------------------------
(* Page renders                                                            *)

EmptyMarkup == [core |-> <<>>, flow |-> <<>>, config |-> <<>>, aliases |-> <<>>]

\* ReadmePage answering from a markup cache shared by the pages.
ReadmePageMarkupCached ==
    IF rendered.docs # EmptyMarkup THEN rendered.docs
    ELSE [core |-> PageCoreBlock, flow |-> PageFlowBlock,
          config |-> PageConfigBlock, aliases |-> PageAliasBlock]

\* The command reference ReadmePage returns: its own inline code blocks.
ReadmePageMarkup ==
    [core |-> PageCoreBlock, flow |-> PageFlowBlock,
     config |-> PageConfigBlock, aliases |-> PageAliasBlock]

ExampleLines(entries) == [i \in 1..Len(entries) |-> entries[i].example]

AliasLines(entries) ==
    [i \in 1..Len(entries) |->
        [cmd |-> entries[i].name, args |-> "", aliasOf |-> entries[i].aliasOf]]

\* The command reference of the project documentation: the catalog's tables
\* and its alias list.
DocumentationMarkup(cmds) ==
    [core |-> ExampleLines(OfCategory(cmds, "Core")),
     flow |-> ExampleLines(OfCategory(cmds, "Flow")),
     config |-> <<>>,
     aliases |-> AliasLines(SelectSeq(cmds, HasAlias))]

\* The commands a rendered command reference shows.
Shown(markup) ==
    {markup.core[i].cmd : i \in 1..Len(markup.core)}
        \cup {markup.flow[i].cmd : i \in 1..Len(markup.flow)}
        \cup {markup.config[i].cmd : i \in 1..Len(markup.config)}

\* The examples a rendered command reference shows for one command.
ExamplesOf(markup, cmd) ==
    LET all == markup.core \o markup.flow \o markup.config IN
    {all[i].args : i \in {k \in 1..Len(all) : all[k].cmd = cmd}}

-----------------------------------------------------------------------------
(* Release workflow, quick start, documentation template                   *)

\* The matrix with the Linux asset named after another architecture tag.
MatrixLinuxX86 ==
    << [os |-> "ubuntu-latest", artifact_name |-> "nuts",
        asset_name |-> "nuts-linux-x86_64"],
       [os |-> "windows-latest", artifact_name |-> "nuts.exe",
        asset_name |-> "nuts-windows-amd64.exe"],
       [os |-> "macos-latest", artifact_name |-> "nuts",
        asset_name |-> "nuts-macos-amd64"] >>

\* The matrix with the macOS entry copied from the Linux one and only its
\* os changed.
MatrixMacosAsLinux ==
    << [os |-> "ubuntu-latest", artifact_name |-> "nuts",
        asset_name |-> "nuts-linux-amd64"],
       [os |-> "windows-latest", artifact_name |-> "nuts.exe",
        asset_name |-> "nuts-windows-amd64.exe"],
       [os |-> "macos-latest", artifact_name |-> "nuts",
        asset_name |-> "nuts-linux-amd64"] >>

\* jobs.build.strategy.matrix.include
Matrix ==
    << [os |-> "ubuntu-latest", artifact_name |-> "nuts",
        asset_name |-> "nuts-linux-amd64"],
       [os |-> "windows-latest", artifact_name |-> "nuts.exe",
        asset_name |-> "nuts-windows-amd64.exe"],
       [os |-> "macos-latest", artifact_name |-> "nuts",
        asset_name |-> "nuts-macos-amd64"] >>

Jobs == 1..Len(Matrix)

\* The steps of a build job, in order.
Steps == << "checkout", "Install Rust", "Build", "Upload binaries to release" >>

\* Quick start: curl -L .../releases/latest/download/nuts-linux-amd64 -o nuts
QuickStartDownload == "nuts-linux-amd64"

\* Sidebar with the Introduction link tested by prefix (every pathname
\* starts with "/").
SidebarPrefixMatch(pathname) ==
    [Introduction |-> TRUE,
     Authentication |-> pathname = "/authentication"]

\* Sidebar(): which link gets the highlight classes for router.pathname.
Sidebar(pathname) ==
    [Introduction |-> pathname = "/",
     Authentication |-> pathname = "/authentication"]

\* Pathnames the router can have: the Sidebar links, the Header links and
\* two that no link names.
Pathnames ==
    {"/", "/authentication", "/docs", "/api-reference", "/authentication/",
     "/404"}

\* What a health check can find: fine, or one of the detected issues.
Outcomes == {"ok", "slow", "error", "empty"}

Requests == 1..MaxRequests

-----------------------------------------------------------------------------
(* The state machine                                                       *)

\* Names asked of resolveAlias: every catalog name and some that are absent.
QueryNames ==
    Names(AuthoredCatalog)
        \cup {"help", "quit", "flow configure_mock_data", "flow s", "nuts"}

\* Modes asked of describeMonitoring: the documented two and two others.
ModeInputs == {"Basic", "Smart", "Turbo", "smart"}

\* The catalog as loaded for a render.
Authored ==
    [commands |-> AuthoredCatalog, options |-> Options \o PageOptions,
     monitoring |-> MonitorDetails]

Init ==
    /\ catalog = Authored
    /\ log = <<>>
    /\ rendered = [readme |-> EmptyMarkup, docs |-> EmptyMarkup]
    /\ requests = [r \in Requests |-> [state |-> "idle", page |-> "none", markup |-> EmptyMarkup]]
    /\ monitor = [mode |-> "off", clock |-> 0, checks |-> <<>>, analyses |-> {}]
    /\ release = [tag |-> "none", pc |-> [j \in Jobs |-> 0],
                  failed |-> {}, cancelled |-> {}, assets |-> {}]
    /\ nav = [history |-> <<>>, links |-> Sidebar("")]

\* The state outside the catalog, its operations and the two page renders.
others == <<requests, monitor, release, nav>>

Record(op, arg, result) ==
    /\ Len(log) < MaxCalls
    /\ log' = Append(log, [op |-> op, arg |-> arg, result |-> result])

ListCommands(cat) ==
    /\ Record("listCommands", cat,
              [ok |-> TRUE, entries |-> listCommands(catalog.commands, cat)])
    /\ UNCHANGED <<catalog, rendered>>
    /\ UNCHANGED others

ResolveAlias(name) ==
    /\ Record("resolveAlias", name, resolveAlias(catalog.commands, name))
    /\ UNCHANGED <<catalog, rendered>>
    /\ UNCHANGED others

DescribeMonitoring(mode) ==
    /\ Record("describeMonitoring", mode,
              describeMonitoring(catalog.monitoring, mode))
    /\ UNCHANGED <<catalog, rendered>>
    /\ UNCHANGED others

\* ReadmePage with its inline commands written back into the catalog.
ReadmePageRegistering ==
    /\ rendered' = [rendered EXCEPT !.readme = ReadmePageMarkup]
    /\ catalog' = [catalog EXCEPT !.commands =
                      @ \o << [name |-> "flow configure_mock_data",
                               category |-> "Flow"] >>]
    /\ UNCHANGED log
    /\ UNCHANGED others

\* ReadmePage with the alias entries spliced out of the catalog's command
\* list while it builds its own alias block.
ReadmePageSplicingAliases ==
    /\ rendered' = [rendered EXCEPT !.readme = ReadmePageMarkup]
    /\ catalog' = [catalog EXCEPT !.commands =
                      SelectSeq(@, LAMBDA e : ~HasAlias(e))]
    /\ UNCHANGED log
    /\ UNCHANGED others

\* ReadmePage with the catalog's command list sorted in place (here: into
\* the reverse of the authored order) before it is displayed.
ReadmePageSortingInPlace ==
    /\ rendered' = [rendered EXCEPT !.readme = ReadmePageMarkup]
    /\ catalog' = [catalog EXCEPT !.commands =
                      [i \in 1..Len(@) |-> @[Len(@) + 1 - i]]]
    /\ UNCHANGED log
    /\ UNCHANGED others

\* ReadmePage(): a function component without state, props or effects; it
\* returns its markup and assigns nothing.
ReadmePage ==
    /\ rendered' = [rendered EXCEPT !.readme = ReadmePageMarkup]
    /\ UNCHANGED <<catalog, log>>
    /\ UNCHANGED others

\* The documentation page displays the tables it was authored with.
Documentation ==
    /\ rendered' = [rendered EXCEPT !.docs = DocumentationMarkup(catalog.commands)]
    /\ UNCHANGED <<catalog, log>>
    /\ UNCHANGED others

Next ==
    \/ \E cat \in Categories \cup {NoCategory} : ListCommands(cat)
    \/ \E name \in QueryNames : ResolveAlias(name)
    \/ \E mode \in ModeInputs : DescribeMonitoring(mode)
    \/ ReadmePage
    \/ Documentation

Spec == Init /\ [][Next]_vars

-----------------------------------------------------------------------------
(* Per-request rendering                                                   *)

catalogVars == <<catalog, log, rendered>>

\* A request for the README page: ReadmePage() is called and returns its
\* markup; the call is synchronous and assigns nothing.
ServeReadme(r) ==
    /\ requests[r].state = "idle"
    /\ requests' = [requests EXCEPT ![r] =
                       [state |-> "rendered", page |-> "readme",
                        markup |-> ReadmePageMarkup]]
    /\ rendered' = [rendered EXCEPT !.readme = ReadmePageMarkup]
    /\ UNCHANGED <<catalog, log, monitor, release, nav>>

\* A request for the documentation page.
ServeDocs(r) ==
    /\ requests[r].state = "idle"
    /\ requests' = [requests EXCEPT ![r] =
                       [state |-> "rendered", page |-> "docs",
                        markup |-> DocumentationMarkup(catalog.commands)]]
    /\ rendered' = [rendered EXCEPT !.docs = DocumentationMarkup(catalog.commands)]
    /\ UNCHANGED <<catalog, log, monitor, release, nav>>

\* The response of a rendered request goes out.
Send(r) ==
    /\ requests[r].state = "rendered"
    /\ requests' = [requests EXCEPT ![r].state = "sent"]
    /\ UNCHANGED <<catalogVars, monitor, release, nav>>

NextRender ==
    \/ \E r \in Requests : ServeReadme(r)
    \/ \E r \in Requests : ServeDocs(r)
    \/ \E r \in Requests : Send(r)

SpecRender == Init /\ [][NextRender]_vars

-----------------------------------------------------------------------------
(* The documented monitor loop                                             *)

\* `monitor URL` starts Basic monitoring, `monitor URL --smart` Smart.
StartMonitor(mode) ==
    /\ monitor.mode = "off"
    /\ monitor' = [monitor EXCEPT !.mode = mode]
    /\ UNCHANGED <<catalogVars, requests, release, nav>>

\* One health check: it happens one base interval after the previous one,
\* records what it found and, in Smart mode, is followed by an AI analysis
\* when it is the 3rd, 6th, ... check.
HealthCheck(outcome) ==
    /\ monitor.mode \in MonitoringModes
    /\ Len(monitor.checks) < MaxChecks
    /\ LET profile == Profile(catalog.monitoring, monitor.mode)
           at == monitor.clock + profile.baseIntervalSeconds
           n == Len(monitor.checks) + 1
           analyse == /\ "aiAnalysisEveryNChecks" \in DOMAIN profile
                      /\ n % profile.aiAnalysisEveryNChecks = 0
       IN  monitor' = [monitor EXCEPT
                          !.clock = at,
                          !.checks = Append(@, [at |-> at, outcome |-> outcome]),
                          !.analyses = IF analyse THEN @ \cup {n} ELSE @]
    /\ UNCHANGED <<catalogVars, requests, release, nav>>

NextMonitor ==
    \/ \E mode \in {"Basic", "Smart"} : StartMonitor(mode)
    \/ \E outcome \in Outcomes : HealthCheck(outcome)

SpecMonitor == Init /\ [][NextMonitor]_vars

-----------------------------------------------------------------------------
(* The release workflow                                                    *)

\* on: push: tags: 'v*'
PushTag ==
    /\ release.tag = "none"
    /\ release' = [release EXCEPT !.tag = "v1.0.0"]
    /\ UNCHANGED <<catalogVars, requests, monitor, nav>>

Running(j) ==
    /\ release.tag # "none"
    /\ j \notin release.failed
    /\ j \notin release.cancelled
    /\ release.pc[j] < Len(Steps)

\* The next step of job j succeeds.  The last step uploads
\* target/release/<artifact_name> to the tag's release as <asset_name>;
\* an asset of that name that is already there is left as it is.
StepOk(j) ==
    /\ Running(j)
    /\ LET step == release.pc[j] + 1
           asset == [name |-> Matrix[j].asset_name,
                     file |-> Matrix[j].artifact_name, job |-> j]
           taken == \E a \in release.assets : a.name = asset.name
       IN  release' = [release EXCEPT
                          !.pc[j] = step,
                          !.assets = IF step = Len(Steps) /\ ~taken
                                     THEN @ \cup {asset} ELSE @]
    /\ UNCHANGED <<catalogVars, requests, monitor, nav>>

\* The next step of job j fails and the job ends.
StepFail(j) ==
    /\ Running(j)
    /\ release' = [release EXCEPT !.failed = @ \cup {j}]
    /\ UNCHANGED <<catalogVars, requests, monitor, nav>>

\* The matrix has no fail-fast setting, so the default holds: once a job
\* has failed, the jobs still running are cancelled.
Cancel(j) ==
    /\ Running(j)
    /\ release.failed # {}
    /\ release' = [release EXCEPT !.cancelled = @ \cup {j}]
    /\ UNCHANGED <<catalogVars, requests, monitor, nav>>

NextRelease ==
    \/ PushTag
    \/ \E j \in Jobs : StepOk(j)
    \/ \E j \in Jobs : StepFail(j)
    \/ \E j \in Jobs : Cancel(j)

SpecRelease == Init /\ [][NextRelease]_vars

-----------------------------------------------------------------------------
(* The documentation template                                              *)

\* The router moves to a pathname and Layout renders Header and Sidebar.
Navigate(pathname) ==
    /\ Len(nav.history) < MaxHistory
    /\ nav' = [history |-> Append(nav.history, pathname),
               links |-> Sidebar(pathname)]
    /\ UNCHANGED <<catalogVars, requests, monitor, release>>

NextNav == \E pathname \in Pathnames : Navigate(pathname)

SpecNav == Init /\ [][NextNav]_vars

-----------------------------------------------------------------------------
(* Properties                                                              *)

Calls(op) == {i \in 1..Len(log) : log[i].op = op}

IsAliasName(name) ==
    \E k \in 1..Len(catalog.commands) :
        /\ catalog.commands[k].name = name
        /\ HasAlias(catalog.commands[k])

EntryNames(entries) == [i \in 1..Len(entries) |-> entries[i].name]

\* C1: resolveAlias on the name of an entry that has an aliasOf reference
\* takes exactly one hop and returns an entry without aliasOf; this is to
\* hold for every alias of the catalog (c, p, s, h, q).
C1_AliasResolvesInOneHop ==
    \A i \in Calls("resolveAlias") :
        IsAliasName(log[i].arg) =>
            /\ log[i].result.ok
            /\ log[i].result.hops = 1
            /\ ~HasAlias(log[i].result.entry)

\* C2: every aliasOf reference of the catalog names an entry that
\* listCommands() returns.
C2_AliasTargetsExist ==
    \A i \in Calls("listCommands") :
        log[i].arg = NoCategory =>
            \A k \in 1..Len(catalog.commands) :
                HasAlias(catalog.commands[k]) =>
                    \E j \in 1..Len(log[i].result.entries) :
                        log[i].result.entries[j].name
                            = catalog.commands[k].aliasOf

IsRendered(markup) == markup # EmptyMarkup

\* C3: the README page and the project documentation show the same set of
\* commands and, for each command, the same examples.
C3_PagesShowSameCommands ==
    (IsRendered(rendered.readme) /\ IsRendered(rendered.docs)) =>
        /\ Shown(rendered.readme) = Shown(rendered.docs)
        /\ \A cmd \in Shown(rendered.docs) :
               ExamplesOf(rendered.readme, cmd) = ExamplesOf(rendered.docs, cmd)

\* C4: whatever operations were called and whatever pages were rendered,
\* the catalog equals the authored catalog.
C4_CatalogNeverMutated == catalog = Authored

\* C4 witness: a failed resolveAlias, a failed describeMonitoring and a
\* render of ReadmePage have all happened.
C4_Witness ==
    /\ \E i \in Calls("resolveAlias") : ~log[i].result.ok
    /\ \E i \in Calls("describeMonitoring") : ~log[i].result.ok
    /\ rendered.readme = ReadmePageMarkup

\* C5: for Smart, baseIntervalSeconds * aiAnalysisEveryNChecks = 90, the
\* AI-analysis interval the pages document.
C5_SmartIntervalIs90 ==
    \A i \in Calls("describeMonitoring") :
        log[i].arg = "Smart" =>
            /\ log[i].result.ok
            /\ log[i].result.profile.baseIntervalSeconds
                 * log[i].result.profile.aiAnalysisEveryNChecks = 90
            /\ catalog.monitoring.Smart.aiEverySeconds = 90

C5_Witness ==
    \E i \in Calls("describeMonitoring") :
        log[i].arg = "Smart" /\ log[i].result.ok

\* C6: describeMonitoring(Basic) has baseIntervalSeconds 30 and no
\* AI-analysis field, describeMonitoring(Smart) has baseIntervalSeconds 30
\* and aiAnalysisEveryNChecks 3.
C6_MonitoringProfiles ==
    \A i \in Calls("describeMonitoring") :
        /\ log[i].arg = "Basic" =>
              /\ log[i].result.ok
              /\ log[i].result.profile.baseIntervalSeconds = 30
              /\ "aiAnalysisEveryNChecks" \notin DOMAIN log[i].result.profile
        /\ log[i].arg = "Smart" =>
              /\ log[i].result.ok
              /\ log[i].result.profile.baseIntervalSeconds = 30
              /\ "aiAnalysisEveryNChecks" \in DOMAIN log[i].result.profile
              /\ log[i].result.profile.aiAnalysisEveryNChecks = 3

C6_Witness ==
    /\ \E i \in Calls("describeMonitoring") : log[i].arg = "Basic"
    /\ \E i \in Calls("describeMonitoring") : log[i].arg = "Smart"

\* C7: describeMonitoring returns a profile for Basic and for Smart and
\* fails with InvalidMode for every other mode.
C7_InvalidModeExactlyForOtherModes ==
    \A i \in Calls("describeMonitoring") :
        IF log[i].arg \in {"Basic", "Smart"}
        THEN log[i].result.ok /\ log[i].result.profile.mode = log[i].arg
        ELSE log[i].result = InvalidMode

C7_Witness ==
    /\ \E i \in Calls("describeMonitoring") :
           log[i].arg = "Turbo" /\ ~log[i].result.ok
    /\ \E i \in Calls("describeMonitoring") :
           log[i].arg = "Smart" /\ log[i].result.ok

\* C8: resolveAlias(name) fails with NotFound exactly when name is not the
\* name of an entry of the catalog.
C8_NotFoundExactlyWhenAbsent ==
    \A i \in Calls("resolveAlias") :
        (~log[i].result.ok) <=> (log[i].arg \notin Names(catalog.commands))

\* C9: with "call" in category Core and "c" an alias of "call" in the
\* catalog, resolveAlias("c") returns the "call" entry.
C9_CResolvesToCall ==
    \A i \in Calls("resolveAlias") :
        log[i].arg = "c" =>
            /\ log[i].result.ok
            /\ log[i].result.entry.name = "call"
            /\ log[i].result.entry.category = "Core"
            /\ log[i].result.entry
                 = catalog.commands[find(catalog.commands, "call")]

C9_Witness ==
    /\ \E k \in 1..Len(catalog.commands) :
           /\ catalog.commands[k].name = "c"
           /\ HasAlias(catalog.commands[k])
           /\ catalog.commands[k].aliasOf = "call"
    /\ \E i \in Calls("resolveAlias") : log[i].arg = "c"

-----------------------------------------------------------------------------
(* Properties of listing, options, categories and aliases                  *)

Rank(cat) ==
    CASE cat = "Core" -> 1 [] cat = "Flow" -> 2 [] cat = "Config" -> 3
      [] OTHER -> 0

IndicesOf(cmds, cat) == {k \in 1..Len(cmds) : cmds[k].category = cat}

\* C11: listCommands() returns every catalog entry, every Core entry before
\* every Flow entry and every Flow entry before every Config entry, in a
\* stable order; listCommands(category) returns exactly the entries of that
\* category.
C11_ListCommandsOrderAndFilter ==
    \A i \in Calls("listCommands") :
        LET es == log[i].result.entries
            cmds == catalog.commands
        IN  IF log[i].arg = NoCategory
            THEN /\ Len(es) = Len(cmds)
                 /\ \A k \in 1..Len(cmds) : \E j \in 1..Len(es) : es[j] = cmds[k]
                 /\ \A a, b \in 1..Len(es) :
                        a < b =>
                            /\ Rank(es[a].category) <= Rank(es[b].category)
                            /\ es[a].category = es[b].category =>
                                   find(cmds, es[a].name) < find(cmds, es[b].name)
            ELSE /\ Len(es) = Cardinality(IndicesOf(cmds, log[i].arg))
                 /\ \A j \in 1..Len(es) : es[j].category = log[i].arg
                 /\ \A k \in IndicesOf(cmds, log[i].arg) :
                        \E j \in 1..Len(es) : es[j] = cmds[k]

\* C11 witness: a full listing with entries of all three categories and a
\* listing of one category have been returned.
C11_Witness ==
    /\ \E i \in Calls("listCommands") :
           /\ log[i].arg = NoCategory
           /\ \A cat \in {"Core", "Flow", "Config"} :
                  \E j \in 1..Len(log[i].result.entries) :
                      log[i].result.entries[j].category = cat
    /\ \E i \in Calls("listCommands") :
           log[i].arg = "Core" /\ Len(log[i].result.entries) = 12

C13_OptionsApplyToListedCommands ==
    \A i \in Calls("listCommands") :
        log[i].arg = NoCategory =>
            \A k \in 1..Len(catalog.options) :
                \A c \in catalog.options[k].appliesTo :
                    \E j \in 1..Len(log[i].result.entries) :
                        log[i].result.entries[j].name = c

\* C13 witness: the options are the thirteen documented flags and the full
\* listing has been returned.
C13_Witness ==
    /\ {catalog.options[k].flag : k \in 1..Len(catalog.options)}
         = {"-H", "-u", "--bearer", "-v", "-L", "--timeout", "--retry",
            "--users", "--duration", "--deep", "--auth", "--save", "--smart"}
    /\ \E i \in Calls("listCommands") : log[i].arg = NoCategory

Valid(c) ==
    /\ \A a, b \in 1..Len(c.commands) :
           (a # b /\ c.commands[a].category = c.commands[b].category)
               => c.commands[a].name # c.commands[b].name
    /\ \A a \in 1..Len(c.commands) :
           HasAlias(c.commands[a]) => c.commands[a].aliasOf \in Names(c.commands)
    /\ \A k \in 1..Len(c.options) : c.options[k].appliesTo \subseteq Names(c.commands)

\* C15: no page is rendered from a catalog that fails validation.
C15_NoRenderFromInvalidCatalog ==
    (IsRendered(rendered.readme) \/ IsRendered(rendered.docs)) => Valid(catalog)

\* Every alias binding on display or in the catalog, as <<name, target>>.
AliasBindings ==
    {<<catalog.commands[k].name, catalog.commands[k].aliasOf>> :
        k \in {a \in 1..Len(catalog.commands) : HasAlias(catalog.commands[a])}}
    \cup {<<rendered.readme.aliases[k].cmd, rendered.readme.aliases[k].aliasOf>> :
             k \in 1..Len(rendered.readme.aliases)}
    \cup {<<rendered.docs.aliases[k].cmd, rendered.docs.aliases[k].aliasOf>> :
             k \in 1..Len(rendered.docs.aliases)}
    \cup (IF IsRendered(rendered.readme)
          THEN {<<PageShorthands[k].name, PageShorthands[k].aliasOf>> :
                   k \in 1..Len(PageShorthands)}
          ELSE {})

-----------------------------------------------------------------------------
(* Properties of renders, the monitor loop, the release and the Sidebar    *)

\* The markup of a page rendered alone, from the authored content.
AloneMarkup(page) ==
    IF page = "readme"
    THEN [core |-> PageCoreBlock, flow |-> PageFlowBlock,
          config |-> PageConfigBlock, aliases |-> PageAliasBlock]
    ELSE DocumentationMarkup(AuthoredCatalog)

\* C17: whatever the order of the requests' renders, every request gets the
\* markup a render alone produces, and the catalog it read is the authored
\* one.
C17_RendersIndependent ==
    /\ catalog = Authored
    /\ \A r \in Requests :
           requests[r].state # "idle" =>
               requests[r].markup = AloneMarkup(requests[r].page)

\* C17 witness: two requests for different pages are in flight together
\* after another request was answered.
C17_Witness ==
    \E r1, r2, r3 \in Requests :
        /\ requests[r1].state = "sent"
        /\ requests[r2].state = "rendered" /\ requests[r2].page = "docs"
        /\ requests[r3].state = "rendered" /\ requests[r3].page = "readme"

\* C18: health checks are 30 seconds apart in both modes; in Smart mode the
\* AI analysis happens on check 3, 6, 9, ... and on no other check; in
\* Basic mode it never happens.
C18_AnalysisEveryThirdCheck ==
    monitor.mode \in {"Basic", "Smart"} =>
        /\ \A k \in 1..Len(monitor.checks) :
               monitor.checks[k].at
                 - (IF k = 1 THEN 0 ELSE monitor.checks[k - 1].at) = 30
        /\ monitor.mode = "Smart" =>
               monitor.analyses = {k \in 1..Len(monitor.checks) : k % 3 = 0}
        /\ monitor.mode = "Basic" => monitor.analyses = {}

\* C18 witness: a Smart run has made six checks and analysed the 3rd and
\* the 6th.
C18_Witness ==
    /\ monitor.mode = "Smart"
    /\ Len(monitor.checks) >= 6
    /\ {3, 6} \subseteq monitor.analyses

AssetNames == {a.name : a \in release.assets}

\* C19: when every matrix job has finished all its steps, the release has
\* the asset the quick start downloads.
C19_QuickStartAssetUploaded ==
    (\A j \in Jobs : release.pc[j] = Len(Steps)) => QuickStartDownload \in AssetNames

\* C19 witness: all three jobs have uploaded.
C19_Witness ==
    /\ \A j \in Jobs : release.pc[j] = Len(Steps)
    /\ Cardinality(release.assets) = 3

Highlighted == {l \in {"Introduction", "Authentication"} : nav.links[l]}

\* C20: the Sidebar highlights Introduction exactly at pathname "/",
\* Authentication exactly at "/authentication", nothing elsewhere, and
\* never two links.
C20_AtMostOneLinkHighlighted ==
    nav.history # <<>> =>
        LET pathname == nav.history[Len(nav.history)] IN
        /\ nav.links.Introduction <=> pathname = "/"
        /\ nav.links.Authentication <=> pathname = "/authentication"
        /\ Cardinality(Highlighted) <= 1
        /\ pathname \notin {"/", "/authentication"} => Highlighted = {}

\* C20 witness: after the two Sidebar pages the router is at a Header
\* target and no link is highlighted.
C20_Witness ==
    /\ Len(nav.history) >= 3
    /\ nav.history[1] = "/"
    /\ nav.history[2] = "/authentication"
    /\ nav.history[3] \in {"/docs", "/api-reference"}
    /\ Highlighted = {}

-----------------------------------------------------------------------------
(* Properties of the release assets, of the algebra of the operations and  *)
(* of the pages against the tables                                         *)

Uploaded(j) == release.pc[j] = Len(Steps)

\* C21: the matrix jobs upload under pairwise distinct asset names, so in
\* whatever order they run and finish, the asset of every job that has
\* uploaded is on the release under its own name, and with all three jobs
\* finished the release has three assets.
C21_DistinctAssetsNoOverwrite ==
    /\ \A j \in Jobs :
           Uploaded(j) =>
               \E a \in release.assets :
                   /\ a.job = j
                   /\ a.name = Matrix[j].asset_name
                   /\ a.file = Matrix[j].artifact_name
    /\ \A a, b \in release.assets : a.name = b.name => a = b
    /\ (\A j \in Jobs : Uploaded(j)) => Cardinality(release.assets) = 3

\* C21 witness: every job has uploaded and each of the three asset names
\* is held by the job of its own matrix entry.
C21_Witness ==
    /\ \A j \in Jobs : Uploaded(j)
    /\ {a.job : a \in release.assets} = Jobs
    /\ AssetNames
         = {"nuts-linux-amd64", "nuts-windows-amd64.exe", "nuts-macos-amd64"}

\* C22: listCommands() is listCommands(Core) followed by listCommands(Flow)
\* followed by listCommands(Config): the three per-category results
\* partition the full list, nothing lost or duplicated, the order inside a
\* category kept.
C22_FullListIsConcatenation ==
    \A i \in Calls("listCommands") :
        log[i].arg = NoCategory =>
            LET es == log[i].result.entries IN
            /\ es = OfCategory(es, "Core") \o OfCategory(es, "Flow")
                      \o OfCategory(es, "Config")
            /\ Len(es) = Len(catalog.commands)
            /\ \A a, b \in 1..Len(es) : a # b => es[a] # es[b]
            /\ \A j \in Calls("listCommands") :
                   log[j].arg \in {"Core", "Flow", "Config"} =>
                       log[j].result.entries = OfCategory(es, log[j].arg)

\* C22 witness: the full list and the list of a non-empty category have
\* both been returned, with ReadmePage rendered as well.
C22_Witness ==
    /\ \E i, j \in Calls("listCommands") :
           /\ log[i].arg = NoCategory
           /\ log[j].arg = "Config"
           /\ Len(log[j].result.entries) = 5
    /\ IsRendered(rendered.readme)

\* C23: resolveAlias is idempotent and the identity on canonical entries:
\* for every name of the catalog it returns an entry, resolving the name of
\* that entry returns the same entry after zero hops, and a name whose entry
\* has no aliasOf resolves to that very entry after zero hops.
C23_ResolveAliasIdempotent ==
    \A i \in Calls("resolveAlias") :
        log[i].arg \in Names(catalog.commands) =>
            LET r == log[i].result IN
            /\ r.ok
            /\ LET again == resolveAlias(catalog.commands, r.entry.name) IN
               /\ again.ok
               /\ again.entry = r.entry
               /\ again.hops = 0
            /\ ~IsAliasName(log[i].arg) =>
                   /\ r.hops = 0
                   /\ r.entry = catalog.commands[find(catalog.commands,
                                                      log[i].arg)]

\* The commands of the Core Commands and Flow Management tables, as the
\* catalog holds them.
TableCommands ==
    {catalog.commands[k].name :
        k \in {n \in 1..Len(catalog.commands) :
                  ~HasAlias(catalog.commands[n])}}

\* The page's shorthand lines, as the command reference shows them.
ShorthandCommands ==
    {PageShorthands[k].scope \o " " \o PageShorthands[k].name :
        k \in 1..Len(PageShorthands)}

\* C24: every command a rendered page shows in its command reference is an
\* entry of the top-level command tables (a shorthand line counts with the
\* command it abbreviates); in particular `flow configure_mock_data`, which
\* the README page shows, is in the Flow Management table.
C24_ShownCommandsAreTableEntries ==
    /\ \A cmd \in Shown(rendered.readme) \cup Shown(rendered.docs) :
           cmd \in TableCommands \cup ShorthandCommands
    /\ IsRendered(rendered.readme) =>
           /\ "flow configure_mock_data" \in Shown(rendered.readme)
           /\ "flow configure_mock_data"
                  \in {FlowTable[k].name : k \in 1..Len(FlowTable)}

====
